---- MODULE Spec2Model ----
(***************************************************************************)
(* A model of pambu.py: the geometry (Direction, Point, LineSegment) and   *)
(* the Snake polyline with its move / detect_collision operations.         *)
(* Points are records [y, x]; y grows downward.  A LineSegment built by    *)
(* Snake.move aliases two Point objects of Snake.points, so the segment    *)
(* operations are applied to positions of the points sequence.             *)
(***************************************************************************)
EXTENDS Integers, Sequences, FiniteSets, TLC

\* ---------------------------------------------------------------- bounds
MaxH == 2
MaxW == 24
MaxTicks == 6
MaxStartLen == 10

\* ------------------------------------------------------------- Direction
Directions == {"north", "east", "south", "west"}

NoDirection == "none"

Requests == Directions \cup {NoDirection}

\* is_opp with the east/west pairs forgotten.
is_opp_north_south_only(self, other) ==
    \/ (self = "north" /\ other = "south")
    \/ (self = "south" /\ other = "north")

is_opp(self, other) ==
    \/ (self = "north" /\ other = "south")
    \/ (self = "south" /\ other = "north")
    \/ (self = "east" /\ other = "west")
    \/ (self = "west" /\ other = "east")

\* ----------------------------------------------------------------- Point
Point(py, px) == [y |-> py, x |-> px]

Abs(n) == IF n < 0 THEN -n ELSE n

ISqrt(n) == CHOOSE r \in 0..n : r * r <= n /\ (r + 1) * (r + 1) > n

\* math.sqrt(dy**2 + dx**2), kept to its integer part: exact whenever the
\* two points share a coordinate, which is the only case compared or summed.
distance_from(self, other) ==
    LET dy == other.y - self.y
        dx == other.x - self.x
    IN  ISqrt(dy * dy + dx * dx)

has_same_y(self, other) == self.y = other.y

has_same_x(self, other) == self.x = other.x

is_to_the_left_of(self, other) == self.x <= other.x

is_to_the_right_of(self, other) == self.x >= other.x

is_above(self, other) == self.y <= other.y

\* is_below as a strict comparison.
is_below_strict(self, other) == self.y > other.y

is_below(self, other) == self.y >= other.y

\* Point.move with east and west exchanged.
Point_move_east_west_swapped(self, d) ==
    IF d = "north" THEN [self EXCEPT !.y = self.y - 1]
    ELSE IF d = "west" THEN [self EXCEPT !.x = self.x + 1]
    ELSE IF d = "south" THEN [self EXCEPT !.y = self.y + 1]
    ELSE IF d = "east" THEN [self EXCEPT !.x = self.x - 1]
    ELSE self

Point_move(self, d) ==
    IF d = "north" THEN [self EXCEPT !.y = self.y - 1]
    ELSE IF d = "west" THEN [self EXCEPT !.x = self.x - 1]
    ELSE IF d = "south" THEN [self EXCEPT !.y = self.y + 1]
    ELSE IF d = "east" THEN [self EXCEPT !.x = self.x + 1]
    ELSE self

\* ----------------------------------------------------------- LineSegment
LineSegment(h, t) == [head |-> h, tail |-> t]

length(seg) == distance_from(seg.head, seg.tail)

is_vertical(seg) == has_same_x(seg.head, seg.tail)

is_horizontal(seg) == has_same_y(seg.head, seg.tail)

\* increment with both comparisons reversed: the head steps toward the tail.
increment_toward_tail(seg) ==
    IF is_horizontal(seg)
    THEN IF seg.head.x > seg.tail.x
         THEN [seg EXCEPT !.head = Point_move(seg.head, "west")]
         ELSE [seg EXCEPT !.head = Point_move(seg.head, "east")]
    ELSE IF is_vertical(seg)
    THEN IF seg.head.y > seg.tail.y
         THEN [seg EXCEPT !.head = Point_move(seg.head, "north")]
         ELSE [seg EXCEPT !.head = Point_move(seg.head, "south")]
    ELSE seg

\* increment whose vertical case steps along x, as the horizontal case does.
increment_along_x(seg) ==
    IF is_horizontal(seg)
    THEN IF seg.head.x < seg.tail.x
         THEN [seg EXCEPT !.head = Point_move(seg.head, "west")]
         ELSE [seg EXCEPT !.head = Point_move(seg.head, "east")]
    ELSE IF is_vertical(seg)
    THEN IF seg.head.y < seg.tail.y
         THEN [seg EXCEPT !.head = Point_move(seg.head, "west")]
         ELSE [seg EXCEPT !.head = Point_move(seg.head, "east")]
    ELSE seg

\* increment moves the head object; the result is the segment afterwards.
increment(seg) ==
    IF is_horizontal(seg)
    THEN IF seg.head.x < seg.tail.x
         THEN [seg EXCEPT !.head = Point_move(seg.head, "west")]
         ELSE [seg EXCEPT !.head = Point_move(seg.head, "east")]
    ELSE IF is_vertical(seg)
    THEN IF seg.head.y < seg.tail.y
         THEN [seg EXCEPT !.head = Point_move(seg.head, "north")]
         ELSE [seg EXCEPT !.head = Point_move(seg.head, "south")]
    ELSE seg

\* decrement with the horizontal comparison reversed: the tail steps away
\* from the head.
decrement_away(seg) ==
    IF is_horizontal(seg)
    THEN IF seg.head.x > seg.tail.x
         THEN [seg EXCEPT !.tail = Point_move(seg.tail, "west")]
         ELSE [seg EXCEPT !.tail = Point_move(seg.tail, "east")]
    ELSE IF is_vertical(seg)
    THEN IF seg.head.y < seg.tail.y
         THEN [seg EXCEPT !.tail = Point_move(seg.tail, "north")]
         ELSE [seg EXCEPT !.tail = Point_move(seg.tail, "south")]
    ELSE seg

\* decrement moves the tail object; the result is the segment afterwards.
decrement(seg) ==
    IF is_horizontal(seg)
    THEN IF seg.head.x < seg.tail.x
         THEN [seg EXCEPT !.tail = Point_move(seg.tail, "west")]
         ELSE [seg EXCEPT !.tail = Point_move(seg.tail, "east")]
    ELSE IF is_vertical(seg)
    THEN IF seg.head.y < seg.tail.y
         THEN [seg EXCEPT !.tail = Point_move(seg.tail, "north")]
         ELSE [seg EXCEPT !.tail = Point_move(seg.tail, "south")]
    ELSE seg

Max2(a, b) == IF a >= b THEN a ELSE b

Min2(a, b) == IF a <= b THEN a ELSE b

\* lies_on with the endpoints left out.
lies_on_open(seg, p) ==
    IF is_horizontal(seg)
    THEN /\ p.x < Max2(seg.head.x, seg.tail.x)
         /\ p.x > Min2(seg.head.x, seg.tail.x)
         /\ p.y = seg.head.y
    ELSE IF is_vertical(seg)
    THEN /\ p.y < Max2(seg.head.y, seg.tail.y)
         /\ p.y > Min2(seg.head.y, seg.tail.y)
         /\ p.x = seg.head.x
    ELSE FALSE

\* lies_on returns None (falsy) for a segment that is neither horizontal
\* nor vertical.
lies_on(seg, p) ==
    IF is_horizontal(seg)
    THEN /\ p.x <= Max2(seg.head.x, seg.tail.x)
         /\ p.x >= Min2(seg.head.x, seg.tail.x)
         /\ p.y = seg.head.y
    ELSE IF is_vertical(seg)
    THEN /\ p.y <= Max2(seg.head.y, seg.tail.y)
         /\ p.y >= Min2(seg.head.y, seg.tail.y)
         /\ p.x = seg.head.x
    ELSE FALSE

\* An optional value: None is the empty tuple, a present value v is << v >>.
None == << >>

Some(v) == << v >>

intersection_point(self, other) ==
    IF self.head = other.head \/ self.head = other.tail
    THEN Some(self.head)
    ELSE IF self.tail = other.head \/ self.tail = other.tail
    THEN Some(self.tail)
    ELSE None

\* join_char whose right-hand branch repeats the left-hand glyphs.
join_char_right_copy(ipoint, hline, vline) ==
    IF is_to_the_left_of(ipoint, hline.head) /\ is_to_the_left_of(ipoint, hline.tail)
    THEN IF is_above(ipoint, vline.head) /\ is_above(ipoint, vline.tail)
         THEN Some("ULCORNER")
         ELSE IF is_below(ipoint, vline.head) /\ is_below(ipoint, vline.tail)
         THEN Some("LLCORNER")
         ELSE None
    ELSE IF is_to_the_right_of(ipoint, hline.head) /\ is_to_the_right_of(ipoint, hline.tail)
    THEN IF is_above(ipoint, vline.head) /\ is_above(ipoint, vline.tail)
         THEN Some("ULCORNER")
         ELSE IF is_below(ipoint, vline.head) /\ is_below(ipoint, vline.tail)
         THEN Some("LLCORNER")
         ELSE None
    ELSE None

\* The glyph names stand for curses.ACS_ULCORNER, ACS_LLCORNER,
\* ACS_URCORNER and ACS_LRCORNER.
join_char(ipoint, hline, vline) ==
    IF is_to_the_left_of(ipoint, hline.head) /\ is_to_the_left_of(ipoint, hline.tail)
    THEN IF is_above(ipoint, vline.head) /\ is_above(ipoint, vline.tail)
         THEN Some("ULCORNER")
         ELSE IF is_below(ipoint, vline.head) /\ is_below(ipoint, vline.tail)
         THEN Some("LLCORNER")
         ELSE None
    ELSE IF is_to_the_right_of(ipoint, hline.head) /\ is_to_the_right_of(ipoint, hline.tail)
    THEN IF is_above(ipoint, vline.head) /\ is_above(ipoint, vline.tail)
         THEN Some("URCORNER")
         ELSE IF is_below(ipoint, vline.head) /\ is_below(ipoint, vline.tail)
         THEN Some("LRCORNER")
         ELSE None
    ELSE None

\* window.addch(y, x, ch) on a window kept as the set of written cells.
addch(win, p, ch) ==
    { c \in win : c.at # p } \cup { [at |-> p, ch |-> ch] }

\* LineSegment.join(other, window): the window afterwards.  other is None
\* or Some(segment); vline and hline are assigned as lines 174-185 do, the
\* second segment overriding the first.
join(self, other, win) ==
    IF other = None
    THEN win
    ELSE LET o == other[1]
             vline0 == IF is_vertical(self) THEN Some(self) ELSE None
             hline0 == IF ~is_vertical(self) /\ is_horizontal(self)
                       THEN Some(self) ELSE None
             vline == IF is_vertical(o) THEN Some(o) ELSE vline0
             hline == IF ~is_vertical(o) /\ is_horizontal(o)
                      THEN Some(o) ELSE hline0
         IN  IF hline # None /\ vline # None /\ hline # vline
             THEN LET ipoint == intersection_point(hline[1], vline[1])
                  IN  IF ipoint # None
                      THEN LET ch == join_char(ipoint[1], hline[1], vline[1])
                           IN  IF ch # None
                               THEN addch(win, ipoint[1], ch[1])
                               ELSE win
                      ELSE win
             ELSE win

\* window.hline(y, x, 0, n): n cells of the default line glyph from (y, x)
\* rightwards.
hline(win, py, px, n) ==
    { c \in win : ~(c.at.y = py /\ c.at.x >= px /\ c.at.x < px + n) }
    \cup { [at |-> Point(py, px + k), ch |-> "HLINE"] : k \in 0 .. (n - 1) }

\* window.vline(y, x, 0, n): n cells of the default line glyph from (y, x)
\* downwards.
vline(win, py, px, n) ==
    { c \in win : ~(c.at.x = px /\ c.at.y >= py /\ c.at.y < py + n) }
    \cup { [at |-> Point(py + k, px), ch |-> "VLINE"] : k \in 0 .. (n - 1) }

\* LineSegment.draw(window): the window afterwards.
LineSegment_draw(seg, win) ==
    LET len == length(seg)
        start_point == Point(Min2(seg.head.y, seg.tail.y),
                             Min2(seg.head.x, seg.tail.x))
    IN  IF is_vertical(seg)
        THEN vline(win, start_point.y, start_point.x, len)
        ELSE IF is_horizontal(seg)
        THEN hline(win, start_point.y, start_point.x, len)
        ELSE win

\* ----------------------------------------------------------------- Snake
\* math.floor(0.49 * n) and friends; the double-precision product has the
\* same integer part as the exact one for every n below 200.
FloorPct(pct, n) == (pct * n) \div 100

SnakeInit(maxy, maxx) ==
    << Point(FloorPct(49, maxy), FloorPct(59, maxx)),
       Point(FloorPct(49, maxy), FloorPct(40, maxx)) >>

\* The walk of detect_collision stopping one segment short of the tail.
BodyIndices_skip_last(pts) == 2 .. (Len(pts) - 2)

\* The segments detect_collision walks: zip(points[1:-1], points[2:]),
\* i.e. (1-based) positions i, i+1 for i in 2 .. Len-1.
BodyIndices(pts) == 2 .. (Len(pts) - 1)

detect_collision(pts) ==
    \E i \in BodyIndices(pts) : lies_on(LineSegment(pts[i], pts[i + 1]), pts[1])

\* The branch test without the direction == self.direction case.
GoesStraight_no_same(d, cur) == d = NoDirection \/ is_opp(d, cur)

\* The branch test without the is_opp case.
GoesStraight_no_opp(d, cur) == d = NoDirection \/ d = cur

\* The branch test of Snake.move.
GoesStraight(d, cur) == d = NoDirection \/ d = cur \/ is_opp(d, cur)

\* The head step without the deepcopy: the old head itself is moved and
\* inserted a second time.
HeadStep_no_copy(pts, d, cur) ==
    IF GoesStraight(d, cur)
    THEN [pts EXCEPT ![1] = increment(LineSegment(pts[1], pts[2])).head]
    ELSE << Point_move(pts[1], d), Point_move(pts[1], d) >> \o Tail(pts)

\* Lines 234-242: the head step.  first_seg aliases points[0], points[1].
HeadStep(pts, d, cur) ==
    IF GoesStraight(d, cur)
    THEN [pts EXCEPT ![1] = increment(LineSegment(pts[1], pts[2])).head]
    ELSE << Point_move(pts[1], d) >> \o pts

\* A turn that forgets to update Snake.direction.
DirectionAfter_kept(d, cur) == cur

DirectionAfter(d, cur) == IF GoesStraight(d, cur) THEN cur ELSE d

\* The tail shrink without the removal of the last point.
TailStep_no_prune(pts) ==
    LET m == Len(pts)
        seg == decrement(LineSegment(pts[m - 1], pts[m]))
    IN  [pts EXCEPT ![m] = seg.tail]

\* The tail shrink that already removes the last point at length 1.
TailStep_prune_early(pts) ==
    LET m == Len(pts)
        seg == decrement(LineSegment(pts[m - 1], pts[m]))
    IN  IF length(seg) <= 1
        THEN SubSeq(pts, 1, m - 1)
        ELSE [pts EXCEPT ![m] = seg.tail]

\* Lines 244-246: the tail shrink.  last_seg aliases the last two points
\* (the insertion at index 0 leaves them the last two).
TailStep(pts) ==
    LET m == Len(pts)
        seg == decrement(LineSegment(pts[m - 1], pts[m]))
    IN  IF length(seg) = 0
        THEN SubSeq(pts, 1, m - 1)
        ELSE [pts EXCEPT ![m] = seg.tail]

\* One round of the loop of Snake.draw with the join made before the
\* segment's own line is drawn.
DrawStep_join_first(curr_seg, prev_seg, win) ==
    LineSegment_draw(curr_seg, join(curr_seg, prev_seg, win))

\* One round of the loop of Snake.draw: lines 215-217.
DrawStep(curr_seg, prev_seg, win) ==
    join(curr_seg, prev_seg, LineSegment_draw(curr_seg, win))

RECURSIVE DrawFrom(_, _, _, _)
\* The rounds of the loop of Snake.draw from the i-th pair of points on.
DrawFrom(pts, i, prev_seg, win) ==
    IF i > Len(pts) - 1
    THEN win
    ELSE DrawFrom(pts, i + 1, Some(LineSegment(pts[i], pts[i + 1])),
                  DrawStep(LineSegment(pts[i], pts[i + 1]), prev_seg, win))

\* Snake.draw(window): the window afterwards.
Snake_draw(pts, win) == DrawFrom(pts, 1, None, win)

VARIABLES
    dims,        \* the display size handed to Snake(dimensions)
    points,      \* Snake.points, head first
    direction,   \* Snake.direction
    outcome,     \* "running", "collision" (sys.exit in detect_collision),
                 \* "error" (IndexError raised by move)
    ticks,       \* number of move calls made
    req,         \* the direction requested by the last move call
    branch,      \* what the last move call did: "extend", "turn", "error"
    prevPoints,  \* Snake.points before the last move call
    prevDir,     \* Snake.direction before the last move call
    checked,     \* Snake.points as detect_collision saw them in the last call
    jself,       \* the segment LineSegment.join is called on
    jother,      \* its argument: None or Some(segment)
    window,      \* the cells written on the display surface
    jpc,         \* "idle", "ready" (segments chosen), "done" (join returned),
                 \* "decremented" (decrement returned), and in the frame
                 \* loop "moved" / "drawn"
    jbefore,     \* jself as it was before the segment operation
    tailMark     \* None, or the last segment being followed: its length
                 \* when first seen, the moves made since, the point count
                 \* then, the turns since, and whether the last move
                 \* removed its tail point

vars == << dims, points, direction, outcome, ticks, req, branch,
           prevPoints, prevDir, checked, jself, jother, window, jpc,
           jbefore, tailMark >>

NoDisplay == [h |-> 0, w |-> 0]

\* No segment operation is exercised on its own.
SegIdle ==
    /\ jself = LineSegment(Point(0, 0), Point(0, 0))
    /\ jother = None
    /\ jbefore = jself
    /\ window = {}
    /\ jpc = "idle"

InitCommon ==
    /\ SegIdle
    /\ direction = "east"
    /\ outcome = "running"
    /\ ticks = 0
    /\ req = NoDirection
    /\ branch = "init"
    /\ prevPoints = points
    /\ prevDir = "east"
    /\ checked = points
    /\ tailMark = None

\* snk = Snake(stdscr.getmaxyx())
Init ==
    /\ \E maxy \in 1..MaxH, maxx \in 1..MaxW :
          /\ dims = [h |-> maxy, w |-> maxx]
          /\ points = SnakeInit(maxy, maxx)
    /\ InitCommon

\* A snake whose two points are set directly: horizontal, head strictly
\* east of the tail, heading east.
EastStarts ==
    { << Point(10, tx + len), Point(10, tx) >> :
         tx \in {0, 10}, len \in 1..MaxStartLen }

InitEast ==
    /\ dims = NoDisplay
    /\ points \in EastStarts
    /\ InitCommon

\* Snake.move with the tail shrink done before the collision check.
MoveResult_shrink_first(pts, cur, d) ==
    IF Len(pts) < 2
    THEN [points |-> pts, direction |-> cur, outcome |-> "error",
          branch |-> "error", checked |-> pts]
    ELSE LET shrunk == TailStep(HeadStep(pts, d, cur))
         IN  [points    |-> shrunk,
              direction |-> DirectionAfter(d, cur),
              outcome   |-> IF detect_collision(shrunk)
                            THEN "collision"
                            ELSE "running",
              branch    |-> IF GoesStraight(d, cur) THEN "extend" ELSE "turn",
              checked   |-> shrunk]

\* The whole of Snake.move on a snake (pts, cur) for the request d: the
\* snake afterwards, how the call ended, and what detect_collision saw.
MoveResult(pts, cur, d) ==
    IF Len(pts) < 2
    THEN \* self.points[1] raises IndexError
         [points |-> pts, direction |-> cur, outcome |-> "error",
          branch |-> "error", checked |-> pts]
    ELSE LET stepped == HeadStep(pts, d, cur)
         IN  [points    |-> IF detect_collision(stepped)
                            THEN stepped
                            ELSE TailStep(stepped),
              direction |-> DirectionAfter(d, cur),
              outcome   |-> IF detect_collision(stepped)
                            THEN "collision"
                            ELSE "running",
              branch    |-> IF GoesStraight(d, cur) THEN "extend" ELSE "turn",
              checked   |-> stepped]

\* The last segment as a move starts following it: a snake of at least 3
\* points whose last segment has length at least 1.
MarkOf(pts) ==
    IF Len(pts) >= 3 /\ length(LineSegment(pts[Len(pts) - 1], pts[Len(pts)])) >= 1
    THEN Some([len    |-> length(LineSegment(pts[Len(pts) - 1], pts[Len(pts)])),
               age    |-> 0,
               count  |-> Len(pts),
               turns  |-> 0,
               pruned |-> FALSE])
    ELSE None

\* The record of the followed last segment after a move with result r.
MarkAfter(mark, pts, r) ==
    LET base == IF mark = None \/ mark[1].pruned THEN MarkOf(pts) ELSE mark
    IN  IF base = None \/ r.outcome # "running"
        THEN None
        ELSE Some([base[1] EXCEPT
                     !.age = @ + 1,
                     !.turns = @ + (IF r.branch = "turn" THEN 1 ELSE 0),
                     !.pruned = Len(r.points) < Len(r.checked)])

\* snk.move(stdscr, direction) on the snake; sys.exit and an uncaught
\* exception both end the frame loop.
MoveSnake(d) ==
    /\ outcome = "running"
    /\ ticks < MaxTicks
    /\ LET r == MoveResult(points, direction, d)
       IN  /\ points' = r.points
           /\ direction' = r.direction
           /\ outcome' = r.outcome
           /\ branch' = r.branch
           /\ checked' = r.checked
    /\ ticks' = ticks + 1
    /\ req' = d
    /\ prevPoints' = points
    /\ prevDir' = direction
    /\ tailMark' = MarkAfter(tailMark, points, MoveResult(points, direction, d))
    /\ UNCHANGED dims

\* Snake.move called on its own.
Move(d) ==
    /\ MoveSnake(d)
    /\ UNCHANGED << jself, jother, jbefore, window, jpc >>

Next == \E d \in Requests : Move(d)

Spec == Init /\ [][Next]_vars

SpecEast == InitEast /\ [][Next]_vars

\* -------------------------------------------- the frame loop with draw
\* stdscr.clear() and snk.move(stdscr, direction): lines 270-281.
LoopMove(d) ==
    /\ jpc \in {"idle", "drawn"}
    /\ MoveSnake(d)
    /\ window' = {}
    /\ jpc' = "moved"
    /\ UNCHANGED << jself, jother, jbefore >>

\* snk.draw(stdscr): line 282, reached when move returned.
Draw ==
    /\ jpc = "moved"
    /\ outcome = "running"
    /\ window' = Snake_draw(points, window)
    /\ jpc' = "drawn"
    /\ UNCHANGED << dims, points, direction, outcome, ticks, req, branch,
                    prevPoints, prevDir, checked, tailMark, jself, jother,
                    jbefore >>

NextDraw == (\E d \in Requests : LoopMove(d)) \/ Draw

SpecDraw == InitEast /\ [][NextDraw]_vars

\* ------------------------------------------ LineSegment.join on its own
JoinCoords == {1, 2, 5, 8}

JoinPoints == { Point(py, px) : py \in JoinCoords, px \in JoinCoords }

JoinSegments == { LineSegment(h, t) : h \in JoinPoints, t \in JoinPoints }

InitJoin ==
    /\ jself \in JoinSegments
    /\ jother \in {None} \cup { Some(sg) : sg \in JoinSegments }
    /\ jbefore = jself
    /\ window = {}
    /\ jpc = "ready"
    /\ tailMark = None
    /\ dims = NoDisplay
    /\ points = << Point(0, 1), Point(0, 0) >>
    /\ direction = "east"
    /\ outcome = "running"
    /\ ticks = 0
    /\ req = NoDirection
    /\ branch = "init"
    /\ prevPoints = points
    /\ prevDir = "east"
    /\ checked = points

\* curr_seg.join(prev_seg, window)
Join ==
    /\ jpc = "ready"
    /\ window' = join(jself, jother, window)
    /\ jpc' = "done"
    /\ UNCHANGED << jself, jother, jbefore, dims, points, direction, outcome,
                    ticks, req, branch, prevPoints, prevDir, checked, tailMark >>

NextJoin == Join

SpecJoin == InitJoin /\ [][NextJoin]_vars

\* ------------------------------------- LineSegment.decrement on its own
InitSegment ==
    /\ jself \in JoinSegments
    /\ jother = None
    /\ jbefore = jself
    /\ window = {}
    /\ jpc = "ready"
    /\ tailMark = None
    /\ dims = NoDisplay
    /\ points = << Point(0, 1), Point(0, 0) >>
    /\ direction = "east"
    /\ outcome = "running"
    /\ ticks = 0
    /\ req = NoDirection
    /\ branch = "init"
    /\ prevPoints = points
    /\ prevDir = "east"
    /\ checked = points

\* seg.decrement()
Decrement ==
    /\ jpc = "ready"
    /\ jself' = decrement(jself)
    /\ jbefore' = jself
    /\ jpc' = "decremented"
    /\ UNCHANGED << jother, window, dims, points, direction, outcome, ticks,
                    req, branch, prevPoints, prevDir, checked, tailMark >>

NextSegment == Decrement

SpecSegment == InitSegment /\ [][NextSegment]_vars

\* ------------------------------------------------------------ properties
RECURSIVE TotalLength(_)
\* The sum of the lengths of the segments between consecutive points.
TotalLength(pts) ==
    IF Len(pts) < 2
    THEN 0
    ELSE Abs(pts[1].y - pts[2].y) + Abs(pts[1].x - pts[2].x)
         + TotalLength(Tail(pts))

\* The length of the segment between the last two points.
LastLen(pts) ==
    Abs(pts[Len(pts) - 1].y - pts[Len(pts)].y)
    + Abs(pts[Len(pts) - 1].x - pts[Len(pts)].x)

\* p lies on the closed straight segment from a to b (any orientation).
OnSegment(p, a, b) ==
    /\ (b.x - a.x) * (p.y - a.y) = (b.y - a.y) * (p.x - a.x)
    /\ Min2(a.x, b.x) <= p.x /\ p.x <= Max2(a.x, b.x)
    /\ Min2(a.y, b.y) <= p.y /\ p.y <= Max2(a.y, b.y)

Opposite(d) ==
    CASE d = "north" -> "south"
      [] d = "south" -> "north"
      [] d = "east" -> "west"
      [] d = "west" -> "east"

\* C1: for every display size, as long as no move has ended in a collision
\* the points sequence has at least 2 points.
C1_AtLeastTwoPoints == outcome # "collision" => Len(points) >= 2

\* C2: a straight-continuation move (request none, the current direction or
\* its opposite) that returns leaves the total body length as it was before
\* the move, also for a 2-point snake whose first and last segment coincide.
C2_StraightKeepsLength ==
    (ticks >= 1 /\ branch = "extend" /\ outcome = "running")
        => TotalLength(points) = TotalLength(prevPoints)

C2_Witness ==
    /\ ticks >= 2
    /\ branch = "extend"
    /\ outcome = "running"
    /\ Len(prevPoints) = 2
    /\ TotalLength(prevPoints) >= 1

\* C3: in every snake state, move with the direction opposite to the current
\* one gives the same points, direction and outcome as move with no
\* direction, and does not take the turn branch.
C3_OppositeSameAsNone ==
    outcome = "running" =>
        /\ MoveResult(points, direction, Opposite(direction))
             = MoveResult(points, direction, NoDirection)
        /\ MoveResult(points, direction, Opposite(direction)).branch # "turn"

C3_Witness ==
    /\ ticks >= 1
    /\ req = Opposite(prevDir)
    /\ branch = "extend"
    /\ outcome = "running"
    /\ Len(points) >= 3

\* C4: a move ends in the collision outcome exactly when, at the time of the
\* check, the head points[0] lies on a segment points[i], points[i+1] with
\* i >= 1 (endpoints included); the collision outcome is terminal and keeps
\* the points the check saw.
C4_CollisionExactly ==
    /\ (ticks >= 1 /\ branch # "error") =>
          ((outcome = "collision") <=>
              \E i \in 2 .. (Len(checked) - 1) :
                  OnSegment(checked[1], checked[i], checked[i + 1]))
    /\ outcome = "collision" => (points = checked /\ ~ENABLED Next)

C4_Witness ==
    /\ outcome = "collision"
    /\ \E i \in 2 .. (Len(checked) - 1) :
          OnSegment(checked[1], checked[i], checked[i + 1])

C5_Start == << Point(10, 20), Point(10, 10) >>

C5_AfterStraight == << Point(10, 21), Point(10, 11) >>

\* C5 as stated: from [(10,20),(10,10)] heading east, a straight move gives
\* [(10,21),(10,11)] and a following move requesting north gives
\* [(9,21),(10,21),(10,11)] with direction north.
C5_ScenarioAsStated ==
    /\ (ticks = 1 /\ prevPoints = C5_Start /\ branch = "extend")
          => points = C5_AfterStraight
    /\ (ticks = 2 /\ prevPoints = C5_AfterStraight /\ req = "north")
          => /\ points = << Point(9, 21), Point(10, 21), Point(10, 11) >>
             /\ direction = "north"

\* C5 amended: the move requesting north also shrinks the tail, so the
\* points after it are [(9,21),(10,21),(10,12)], direction north.
C5_Scenario ==
    /\ (ticks = 1 /\ prevPoints = C5_Start /\ branch = "extend")
          => points = C5_AfterStraight
    /\ (ticks = 2 /\ prevPoints = C5_AfterStraight /\ req = "north")
          => /\ points = << Point(9, 21), Point(10, 21), Point(10, 12) >>
             /\ direction = "north"

C5_Witness ==
    /\ ticks = 2
    /\ prevPoints = C5_AfterStraight
    /\ req = "north"
    /\ branch = "turn"
    /\ Len(points) = 3

\* C6 as stated: every move that takes the turn branch leaves exactly one
\* more point than before.
C6_TurnAddsPointAsStated ==
    (ticks >= 1 /\ branch = "turn") => Len(points) = Len(prevPoints) + 1

\* C6 amended: a turn leaves one more point than before, except that a turn
\* which returns and whose last segment had length 1 before the move prunes
\* the tail point in the same move and leaves the point count unchanged.
C6_TurnPointCount ==
    (ticks >= 1 /\ branch = "turn") =>
        Len(points) = Len(prevPoints)
            + (IF outcome = "running" /\ LastLen(prevPoints) = 1 THEN 0 ELSE 1)

C6_Witness ==
    /\ branch = "turn"
    /\ outcome = "running"
    /\ Len(prevPoints) >= 3
    /\ LastLen(prevPoints) = 1
    /\ Len(points) = Len(prevPoints)

\* C7 as stated, read on snakes whose last segment has length at least 1
\* before the move: a move that takes the turn branch leaves the total body
\* length one unit greater than before.
C7_TurnLengthensAsStated ==
    (ticks >= 1 /\ branch = "turn" /\ LastLen(prevPoints) >= 1)
        => TotalLength(points) = TotalLength(prevPoints) + 1

\* C7 amended: a turn that returns leaves the total body length unchanged,
\* as a straight move does (two greater only when the last segment had
\* length 0, where the tail steps away); the length is one greater only
\* when the turn ends in a collision, before the tail shrink.
C7_TurnKeepsLength ==
    /\ (ticks >= 1 /\ branch = "turn" /\ outcome = "running") =>
          TotalLength(points) = TotalLength(prevPoints)
              + (IF LastLen(prevPoints) = 0 THEN 2 ELSE 0)
    /\ (ticks >= 1 /\ branch = "turn" /\ outcome = "collision") =>
          TotalLength(points) = TotalLength(prevPoints) + 1
    /\ (ticks >= 1 /\ branch = "extend" /\ outcome = "running") =>
          TotalLength(points) = TotalLength(prevPoints)

C7_Witness ==
    /\ branch = "turn"
    /\ outcome = "running"
    /\ Len(points) = Len(prevPoints) + 1
    /\ TotalLength(prevPoints) >= 2
    /\ TotalLength(points) = TotalLength(prevPoints)

\* C8: every two consecutive points of the snake share their y or their x
\* coordinate.
C8_AxisAligned ==
    \A i \in 1 .. (Len(points) - 1) :
        points[i].y = points[i + 1].y \/ points[i].x = points[i + 1].x

C8_Witness ==
    /\ ticks >= 3
    /\ Len(points) >= 4
    /\ branch = "extend"
    /\ points[1].x = points[2].x
    /\ points[1].y # points[2].y

C9_Horizontal == LineSegment(Point(5, 2), Point(5, 8))

C9_Vertical == LineSegment(Point(5, 2), Point(1, 2))

Flip(seg) == LineSegment(seg.tail, seg.head)

\* join has been called on the two segments of C9, in either role and with
\* either endpoint as head.
C9_Joined ==
    /\ jpc = "done"
    /\ jother # None
    /\ \/ /\ jself \in {C9_Horizontal, Flip(C9_Horizontal)}
          /\ jother[1] \in {C9_Vertical, Flip(C9_Vertical)}
       \/ /\ jself \in {C9_Vertical, Flip(C9_Vertical)}
          /\ jother[1] \in {C9_Horizontal, Flip(C9_Horizontal)}

\* C9 as stated: join on the horizontal segment (5,2)-(5,8) and the vertical
\* segment (5,2)-(1,2) writes the upper-left corner glyph at (5,2).
C9_JoinGlyphAsStated ==
    C9_Joined => window = { [at |-> Point(5, 2), ch |-> "ULCORNER"] }

\* C9 amended: that join writes the lower-left corner glyph at (5,2), the
\* vertical segment lying above the shared point.
C9_JoinGlyph ==
    C9_Joined => window = { [at |-> Point(5, 2), ch |-> "LLCORNER"] }

C9_Witness ==
    /\ jpc = "done"
    /\ jself = C9_Horizontal
    /\ jother = Some(C9_Vertical)
    /\ window # {}

\* C10: every point of a snake built for a height-H, width-W display stays
\* inside the grid: 0 <= y < H and 0 <= x < W.
C10_Confined ==
    \A i \in 1 .. Len(points) :
        /\ 0 <= points[i].y /\ points[i].y < dims.h
        /\ 0 <= points[i].x /\ points[i].x < dims.w

\* C11: decrement applied to a zero-length segment (head equal to tail) is
\* a no-op: head and tail are unchanged and the length stays 0.
C11_DecrementZeroNoOp ==
    (jpc = "decremented" /\ jbefore.head = jbefore.tail)
        => (jself = jbefore /\ length(jself) = 0)

\* C12: when the head steps onto the cell the tail end point points[-1]
\* occupied at the start of the move, and that point ends a non-head
\* segment of the sequence the check sees, the move ends in a collision:
\* the check runs after the head step and before the tail shrink.
C12_TailCellCollides ==
    (/\ ticks >= 1
     /\ branch # "error"
     /\ Len(checked) >= 3
     /\ checked[1] = prevPoints[Len(prevPoints)])
        => (outcome = "collision" /\ checked[Len(checked)] = prevPoints[Len(prevPoints)])

C12_Witness ==
    /\ ticks >= 1
    /\ Len(checked) >= 3
    /\ checked[1] = prevPoints[Len(prevPoints)]
    /\ LastLen(prevPoints) = 1
    /\ outcome = "collision"

\* C13: a last segment of length L >= 1 of a snake of at least 3 points
\* loses one unit on every following collision-free move, whatever is
\* requested, and its tail point is removed at the end of exactly the L-th
\* move, not earlier; the point count is then the count at the start plus
\* the turns made meanwhile minus one, so after a single turn it is back at
\* its pre-turn value.
C13_TailPrunedAtLth ==
    tailMark # None =>
        LET t == tailMark[1]
        IN  /\ t.len >= 1 /\ t.count >= 3
            /\ t.age >= 1 /\ t.age <= t.len
            /\ t.pruned <=> (t.age = t.len)
            /\ ~t.pruned => /\ Len(points) = t.count + t.turns
                            /\ LastLen(points) = t.len - t.age
            /\ t.pruned => Len(points) = t.count + t.turns - 1

C13_Witness ==
    /\ tailMark # None
    /\ tailMark[1].pruned
    /\ tailMark[1].len >= 2
    /\ tailMark[1].age = tailMark[1].len
    /\ tailMark[1].turns = 1
    /\ Len(points) = tailMark[1].count

\* The orientation of a segment by its endpoints.
Orientation(seg) ==
    IF seg.head = seg.tail THEN "point"
    ELSE IF seg.head.y = seg.tail.y THEN "horizontal"
    ELSE IF seg.head.x = seg.tail.x THEN "vertical"
    ELSE "diagonal"

Endpoints(seg) == {seg.head, seg.tail}

\* The corner that joins an arm going east or west with an arm going south
\* or north.
CornerGlyph(east, south) ==
    IF east
    THEN (IF south THEN "ULCORNER" ELSE "LLCORNER")
    ELSE (IF south THEN "URCORNER" ELSE "LRCORNER")

\* The glyph expected where the horizontal segment h and the vertical
\* segment v, both of length >= 1, meet at p.
ExpectedCorner(h, v, p) ==
    LET hfar == CHOOSE q \in Endpoints(h) : q # p
        vfar == CHOOSE q \in Endpoints(v) : q # p
    IN  [at |-> p, ch |-> CornerGlyph(hfar.x > p.x, vfar.y > p.y)]

\* C14: join on a horizontal and a vertical segment of length >= 1 that
\* share an endpoint P, called on either with the other, writes exactly one
\* glyph, at P: upper-left for east and south, lower-left for east and
\* north, upper-right for west and south, lower-right for west and north.
\* It writes nothing when the other segment is absent, when both segments
\* have the same orientation, or when they share no endpoint.
C14_JoinCorners ==
    jpc = "done" =>
        IF jother = None
        THEN window = {}
        ELSE LET a == jself
                 b == jother[1]
                 shared == Endpoints(a) \cap Endpoints(b)
             IN  /\ Orientation(a) = Orientation(b) => window = {}
                 /\ shared = {} => window = {}
                 /\ \A h \in {a, b}, v \in {a, b} :
                       (/\ Orientation(h) = "horizontal"
                        /\ Orientation(v) = "vertical"
                        /\ shared # {})
                          => window = { ExpectedCorner(h, v, CHOOSE q \in shared : TRUE) }

C14_Witness ==
    /\ jpc = "done"
    /\ jother # None
    /\ Orientation(jself) = "vertical"
    /\ Orientation(jother[1]) = "horizontal"
    /\ window = { [at |-> Point(5, 5), ch |-> "LRCORNER"] }

\* The corner glyph expected at the i-th point, where the segments before
\* and after it meet; no glyph fits when they are not one horizontal and
\* one vertical segment.
CornerAt(pts, i) ==
    LET a == LineSegment(pts[i - 1], pts[i])
        b == LineSegment(pts[i], pts[i + 1])
    IN  IF Orientation(a) = "horizontal" /\ Orientation(b) = "vertical"
        THEN {ExpectedCorner(a, b, pts[i])}
        ELSE IF Orientation(a) = "vertical" /\ Orientation(b) = "horizontal"
        THEN {ExpectedCorner(b, a, pts[i])}
        ELSE {}

\* C15: after Snake.draw on a snake reached by collision-free moves, the
\* cell of every interior point holds the corner glyph join wrote there:
\* no later line draw of the same draw has overwritten it.
C15_CornersSurviveDraw ==
    jpc = "drawn" =>
        \A i \in 2 .. (Len(points) - 1) :
            /\ CornerAt(points, i) # {}
            /\ CornerAt(points, i) \subseteq window

C15_Witness ==
    /\ jpc = "drawn"
    /\ Len(points) >= 4
    /\ \E i \in 2 .. (Len(points) - 1) :
          \* the corner is the first cell of the line drawn after it
          /\ points[i].x = points[i + 1].x
          /\ points[i].y < points[i + 1].y
          /\ CornerAt(points, i) \subseteq window

\* The cell one step from p in the compass direction d.
Displaced(p, d) ==
    CASE d = "north" -> Point(p.y - 1, p.x)
      [] d = "south" -> Point(p.y + 1, p.x)
      [] d = "east" -> Point(p.y, p.x + 1)
      [] d = "west" -> Point(p.y, p.x - 1)

\* C16: a move changes the coordinates of no point but the pre-move head
\* (on a straight move only, by one step) and the pre-move last point.  On
\* a turn the former head keeps its coordinates and becomes points[1], the
\* new head is one step from it in the requested direction and direction
\* becomes the request; interior points keep coordinates and order.
C16_MoveFrame ==
    (ticks >= 1 /\ branch \in {"extend", "turn"}) =>
        LET n == Len(prevPoints)
        IN  IF branch = "turn"
            THEN /\ req \in Directions
                 /\ direction = req
                 /\ Len(points) \in {n, n + 1}
                 /\ points[1] = Displaced(prevPoints[1], req)
                 /\ \A i \in 1 .. (n - 1) : points[i + 1] = prevPoints[i]
            ELSE /\ direction = prevDir
                 /\ Len(points) \in {n - 1, n}
                 /\ \E d \in Directions : points[1] = Displaced(prevPoints[1], d)
                 /\ \A i \in 2 .. (n - 1) : points[i] = prevPoints[i]

C16_Witness ==
    /\ branch = "turn"
    /\ outcome = "running"
    /\ req = "west"
    /\ Len(prevPoints) >= 3
    /\ Len(points) = Len(prevPoints) + 1
    /\ points[2] = prevPoints[1]

\* The segment between the i-th and the next point.
SegmentAt(pts, i) == LineSegment(pts[i], pts[i + 1])

\* C17: from a 2-point horizontal snake heading east with the head strictly
\* east of the tail, in every state reached by collision-free moves every
\* segment has length at least 1 and every two consecutive segments are
\* perpendicular, one horizontal and one vertical.
C17_ProperPerpendicular ==
    outcome = "running" =>
        /\ \A i \in 1 .. (Len(points) - 1) :
              Orientation(SegmentAt(points, i)) \in {"horizontal", "vertical"}
        /\ \A i \in 1 .. (Len(points) - 2) :
              Orientation(SegmentAt(points, i)) # Orientation(SegmentAt(points, i + 1))

C17_Witness ==
    /\ outcome = "running"
    /\ ticks >= 4
    /\ Len(points) >= 4
    /\ req = direction
    /\ branch = "extend"

\* The compass direction in which q lies from p, for two distinct points
\* sharing a coordinate.
Compass(p, q) ==
    IF p.y = q.y /\ q.x > p.x THEN "east"
    ELSE IF p.y = q.y /\ q.x < p.x THEN "west"
    ELSE IF p.x = q.x /\ q.y > p.y THEN "south"
    ELSE IF p.x = q.x /\ q.y < p.y THEN "north"
    ELSE "none"

\* C18: from such a start, after every move the head is the pre-move head
\* displaced by one cell in the snake's post-move direction, and in every
\* state Snake.direction is the compass direction from points[1] to
\* points[0].
C18_DirectionMatchesGeometry ==
    /\ Len(points) >= 2
    /\ Compass(points[2], points[1]) = direction
    /\ ticks >= 1 => points[1] = Displaced(prevPoints[1], direction)

C18_Witness ==
    /\ ticks >= 3
    /\ branch = "extend"
    /\ direction = "south"
    /\ Len(points) >= 3
    /\ points[1] = Displaced(prevPoints[1], "south")

\* The grid cells of an axis-aligned segment.
Cells(seg) ==
    { Point(cy, cx) :
        cy \in Min2(seg.head.y, seg.tail.y) .. Max2(seg.head.y, seg.tail.y),
        cx \in Min2(seg.head.x, seg.tail.x) .. Max2(seg.head.x, seg.tail.x) }

\* C19: in every state reached by a move that returned, from a well-formed
\* start, no cell lies on two non-adjacent segments and adjacent segments
\* share only their common endpoint.
C19_SelfAvoiding ==
    outcome = "running" =>
        \A i \in 1 .. (Len(points) - 1), j \in 1 .. (Len(points) - 1) :
            /\ j = i + 1 =>
                  Cells(SegmentAt(points, i)) \cap Cells(SegmentAt(points, j))
                      = {points[j]}
            /\ j > i + 1 =>
                  Cells(SegmentAt(points, i)) \cap Cells(SegmentAt(points, j)) = {}

C19_Witness ==
    /\ outcome = "running"
    /\ Len(points) >= 5
    /\ ticks >= 4
    \* the head runs beside an earlier segment, one cell away
    /\ \E c \in Cells(SegmentAt(points, Len(points) - 1)) :
          Abs(c.y - points[1].y) + Abs(c.x - points[1].x) = 1

\* C20: from such a start, a collision is reported only when the sequence
\* the check sees has at least 5 points: the head never lies on the second
\* or the third segment.
C20_CollisionNeedsFivePoints ==
    ticks >= 1 =>
        /\ outcome = "collision" => Len(checked) >= 5
        /\ \A i \in {2, 3} :
              i + 1 <= Len(checked)
                  => ~OnSegment(checked[1], checked[i], checked[i + 1])

C20_Witness ==
    /\ outcome = "collision"
    /\ Len(checked) = 5
    /\ OnSegment(checked[1], checked[4], checked[5])

====
